---- MODULE Spec2Model ----
(***************************************************************************)
(* Model of the FieldforceTCM serial driver (pni.py): the frame codec      *)
(* (_sendMessage / _recvMessage / _recvSpecificMessage), the command       *)
(* methods built on it and the calibration status loop.  The serial port   *)
(* is a byte queue (inbuf) filled by the device and drained by the driver. *)
(*                                                                         *)
(* Python values are represented as follows:                               *)
(*   bytes / str        sequence of integers 0..255                        *)
(*   float (from '>f')  [s, e, m]: sign, biased exponent, 23-bit fraction  *)
(*   float (for '>d')   <<w3, w2, w1, w0>>: the binary64 pattern as four   *)
(*                      16-bit words, most significant first               *)
(*   bool               TRUE / FALSE                                       *)
(*   None               <<>> ;  any other value v is held as <<v>>         *)
(*   dict               function from keys to values                       *)
(* An exception ends the command; res.status names it.                     *)
(***************************************************************************)
EXTENDS Integers, Sequences, FiniteSets, TLC

\* ------------------------------------------------------------------ bounds
\* Unsolicited (streamed) frames the device may have queued in the channel.
MaxQueue == 1
\* Frames one calibration session may consume before the model stops it.
MaxCalFrames == 4

\* ---------------------------------------------------------------- FrameID
kGetModInfo == 1
kModInfoResp == 2
kSetDataComponents == 3
kGetData == 4
kDataResp == 5
kSetConfig == 6
kGetConfig == 7
kConfigResp == 8
kSave == 9
kStartCal == 10
kSetParam == 12
kGetParam == 13
kParamResp == 14
kPowerDown == 15
kSaveDone == 16
kUserCalSampCount == 17
kUserCalScore == 18
kSetConfigDone == 19
kSetParamDone == 20
kStartIntervalMode == 21
kStopIntervalMode == 22
kPowerUp == 23
kSetAcqParams == 24
kGetAcqParams == 25
kAcqParamsDone == 26
kAcqParamsResp == 27
kPowerDownDone == 28

\* ------------------------------------------------------------- bit helpers
Byte == 0..255

RECURSIVE XorBits(_, _, _)
\* Bitwise exclusive or of the low n bits of a and b.
XorBits(a, b, n) ==
    IF n = 0 THEN 0
    ELSE ((a + b) % 2) + 2 * XorBits(a \div 2, b \div 2, n - 1)

\* Exclusive or of two bytes, tabulated once.
XorTable == [a \in Byte |-> [b \in Byte |-> XorBits(a, b, 8)]]

XorByte(a, b) == XorTable[a][b]

\* Exclusive or of two 16-bit words.
Xor16(a, b) ==
    256 * XorByte(a \div 256, b \div 256) + XorByte(a % 256, b % 256)

\* --------------------------------------------------------------- CRC-16
\* Generator polynomial X^16 + X^12 + X^5 + 1 without its top bit.
CrcPoly == 4129

RECURSIVE CrcShift(_, _)
\* n shift steps of the non-reflected CRC register.
CrcShift(reg, n) ==
    IF n = 0 THEN reg
    ELSE CrcShift(IF reg >= 32768
                  THEN Xor16((2 * reg) % 65536, CrcPoly)
                  ELSE (2 * reg) % 65536, n - 1)

\* The register after one input byte i enters a zero register.
CrcTable == [i \in Byte |-> CrcShift(256 * i, 8)]

\* One input byte b enters register reg.
CrcUpdate(reg, b) ==
    Xor16((reg % 256) * 256, CrcTable[XorByte(reg \div 256, b)])

\* The register after bytes[lo..hi] have entered register reg, in order.
\* The range is halved, and the halves are applications of a function, so
\* that the left half's register is a value before the right half starts:
\* this keeps the evaluation shallow on long frames.
CrcRange(reg, bytes, lo, hi) ==
    LET Go[r \in Nat, l \in Nat, h \in Nat] ==
            IF l >= h THEN CrcUpdate(r, bytes[l])
            ELSE LET mid == (l + h) \div 2
                 IN Go[Go[r, l, mid], mid + 1, h]
    IN IF lo > hi THEN reg ELSE Go[reg, lo, hi]

\* crcmod.mkCrcFun(0b10001000000100001, 0, False): initial value 0, not
\* reflected, no final exclusive or.
Crc(bytes) == CrcRange(0, bytes, 1, Len(bytes))

\* ------------------------------------------------------- struct pack/unpack
\* Results of unpack are [ok |-> BOOLEAN, v |-> value]; ok is FALSE where
\* Python raises struct.error (the string has not the format's size).
StructFail == [ok |-> FALSE, v |-> 0]

Pack_B(n) == <<n % 256>>
Pack_H(n) == <<(n \div 256) % 256, n % 256>>
Pack_I(n) == <<(n \div 16777216) % 256, (n \div 65536) % 256,
               (n \div 256) % 256, n % 256>>
Pack_bool(b) == <<IF b THEN 1 ELSE 0>>
Pack_f(x) == <<128 * x.s + x.e \div 2,
               128 * (x.e % 2) + x.m \div 65536,
               (x.m \div 256) % 256,
               x.m % 256>>
Pack_d(x) == Pack_H(x[1]) \o Pack_H(x[2]) \o Pack_H(x[3]) \o Pack_H(x[4])

Unpack_B(s) ==
    IF Len(s) # 1 THEN StructFail ELSE [ok |-> TRUE, v |-> s[1]]
Unpack_H(s) ==
    IF Len(s) # 2 THEN StructFail ELSE [ok |-> TRUE, v |-> 256 * s[1] + s[2]]
Unpack_I(s) ==
    IF Len(s) # 4 THEN StructFail
    ELSE [ok |-> TRUE,
          v |-> 16777216 * s[1] + 65536 * s[2] + 256 * s[3] + s[4]]
Unpack_bool(s) ==
    IF Len(s) # 1 THEN StructFail ELSE [ok |-> TRUE, v |-> s[1] # 0]
Unpack_f(s) ==
    IF Len(s) # 4 THEN StructFail
    ELSE [ok |-> TRUE,
          v |-> [s |-> s[1] \div 128,
                 e |-> 2 * (s[1] % 128) + s[2] \div 128,
                 m |-> 65536 * (s[2] % 128) + 256 * s[3] + s[4]]]
Unpack_d(s) ==
    IF Len(s) # 8 THEN StructFail
    ELSE [ok |-> TRUE,
          v |-> <<256 * s[1] + s[2], 256 * s[3] + s[4],
                  256 * s[5] + s[6], 256 * s[7] + s[8]>>]

\* The Struct objects of the class, by name.
StructSize(t) ==
    CASE t = "uint8" -> 1
      [] t = "uint16" -> 2
      [] t = "uint32" -> 4
      [] t = "float32" -> 4
      [] t = "boolean" -> 1

StructPack(t, v) ==
    CASE t = "uint8" -> Pack_B(v)
      [] t = "uint16" -> Pack_H(v)
      [] t = "uint32" -> Pack_I(v)
      [] t = "float32" -> Pack_f(v)
      [] t = "boolean" -> Pack_bool(v)

StructUnpack(t, s) ==
    CASE t = "uint8" -> Unpack_B(s)
      [] t = "uint16" -> Unpack_H(s)
      [] t = "uint32" -> Unpack_I(s)
      [] t = "float32" -> Unpack_f(s)
      [] t = "boolean" -> Unpack_bool(s)

\* Python slice s[a:b] on 0-based offsets, clipped to the string.
Slice(s, a, b) ==
    IF a >= Len(s) \/ b <= a THEN <<>>
    ELSE SubSeq(s, a + 1, IF b > Len(s) THEN Len(s) ELSE b)

RECURSIVE Concat(_)
Concat(ss) == IF ss = <<>> THEN <<>> ELSE Head(ss) \o Concat(Tail(ss))

\* ---------------------------------------------------------------- registries
\* FieldforceTCM.Datum._fields
DatumFields ==
    {"Heading", "Temperature", "Distortion", "CalStatus",
     "PAligned", "RAligned", "IZAligned",
     "PAngle", "RAngle", "KXAligned", "KYAligned", "KZAligned"}

Comp(n, t) == [name |-> n, struct |-> t]

\* FieldforceTCM.components
components ==
    (5 :> Comp("Heading", "float32")) @@
    (7 :> Comp("Temperature", "float32")) @@
    (8 :> Comp("Distortion", "boolean")) @@
    (9 :> Comp("CalStatus", "boolean")) @@
    (21 :> Comp("PAligned", "float32")) @@
    (22 :> Comp("RAligned", "float32")) @@
    (23 :> Comp("IZAligned", "float32")) @@
    (24 :> Comp("PAngle", "float32")) @@
    (25 :> Comp("RAngle", "float32")) @@
    (27 :> Comp("XAligned", "float32")) @@
    (28 :> Comp("YAligned", "float32")) @@
    (29 :> Comp("ZAligned", "float32"))

\* FieldforceTCM.config
config ==
    (1 :> Comp("Declination", "float32")) @@
    (2 :> Comp("TrueNorth", "boolean")) @@
    (6 :> Comp("BigEndian", "boolean")) @@
    (10 :> Comp("MountingRef", "uint8")) @@
    (12 :> Comp("UserCalNumPoints", "uint32")) @@
    (13 :> Comp("UserCalAutoSampling", "boolean")) @@
    (14 :> Comp("BaudRate", "uint8")) @@
    (15 :> Comp("MilOutput", "boolean")) @@
    (16 :> Comp("DataCal", "boolean")) @@
    (18 :> Comp("CoeffCopySet", "uint32")) @@
    (19 :> Comp("AccelCoeffCopySet", "uint32"))

\* The first half of each default coefficient table: every table of
\* fir_defaults is a palindrome.  Each entry is the binary64 pattern of the
\* literal in the source.
Fir4Half ==
    << <<16295, 59954, 31267, 45641>>, <<16349, 697, 45243, 35327>> >>
Fir8Half ==
    << <<16276, 23103, 4057, 61259>>, <<16304, 33568, 61701, 7717>>,
       <<16325, 19384, 3360, 34345>>, <<16335, 59247, 39009, 44215>> >>
Fir16Half ==
    << <<16256, 21474, 29371, 46086>>, <<16266, 1978, 58766, 334>>,
       <<16282, 38974, 31569, 54021>>, <<16295, 51340, 51811, 58327>>,
       <<16306, 11939, 34462, 57084>>, <<16312, 26917, 9483, 46589>>,
       <<16317, 26223, 62481, 12716>>, <<16320, 5630, 55450, 20056>> >>
Fir32Half ==
    << <<16216, 18821, 29815, 38410>>, <<16224, 64739, 57182, 50610>>,
       <<16234, 54709, 38138, 7308>>, <<16245, 49077, 20924, 7365>>,
       <<16257, 5453, 41012, 60981>>, <<16265, 33528, 15318, 44017>>,
       <<16274, 4558, 30512, 54434>>, <<16280, 23978, 22542, 14276>>,
       <<16287, 27720, 36212, 5479>>, <<16291, 30365, 24066, 31689>>,
       <<16295, 16133, 14607, 32679>>, <<16298, 55527, 63986, 60161>>,
       <<16302, 3335, 53377, 12781>>, <<16304, 21506, 854, 20318>>,
       <<16305, 16226, 62076, 19341>>, <<16305, 47394, 36907, 46634>> >>

Reverse(s) == [i \in 1..Len(s) |-> s[Len(s) + 1 - i]]

\* FieldforceTCM.fir_defaults
fir_defaults ==
    (0 :> <<>>) @@
    (4 :> Fir4Half \o Reverse(Fir4Half)) @@
    (8 :> Fir8Half \o Reverse(Fir8Half)) @@
    (16 :> Fir16Half \o Reverse(Fir16Half)) @@
    (32 :> Fir32Half \o Reverse(Fir32Half))

\* ------------------------------------------------------------- frame codec
\* Mutant of EncodeFrame: the checksum covers the payload alone.
EncodeFrame_CrcOfPayload(frame_id, payload) ==
    LET count == Len(payload) + 5
        head == Pack_H(count) \o Pack_B(frame_id) \o payload
        tail == Pack_H(Crc(payload))
    IN head \o tail

\* Mutant of EncodeFrame: the length field leaves the crc bytes out.
EncodeFrame_CountWithoutCrc(frame_id, payload) ==
    LET count == Len(payload) + 3
        head == Pack_H(count) \o Pack_B(frame_id) \o payload
        tail == Pack_H(Crc(head))
    IN head \o tail

\* The bytes _sendMessage hands to _send: head + tail.
EncodeFrame(frame_id, payload) ==
    LET count == Len(payload) + 5
        head == Pack_H(count) \o Pack_B(frame_id) \o payload
        tail == Pack_H(Crc(head))
    IN head \o tail

\* Mutant of RecvMessage: the received crc is not compared.
RecvMessage_Unchecked(buf) ==
    IF Len(buf) < 2
    THEN [status |-> "blocked", fid |-> 0, payload |-> <<>>, used |-> 0]
    ELSE
      LET count == Unpack_H(SubSeq(buf, 1, 2)).v
          payload_count == count - 5
      IN IF payload_count < 0
         THEN [status |-> "StructError", fid |-> 0, payload |-> <<>>,
               used |-> 2]
         ELSE IF Len(buf) < count
         THEN [status |-> "blocked", fid |-> 0, payload |-> <<>>,
               used |-> 0]
         ELSE [status |-> "ok", fid |-> buf[3],
               payload |-> SubSeq(buf, 4, 3 + payload_count),
               used |-> count]

\* Mutant of RecvMessage: the second byte of the crc is compared but left
\* in the channel.
RecvMessage_LeavesByte(buf) ==
    IF Len(buf) < 2
    THEN [status |-> "blocked", fid |-> 0, payload |-> <<>>, used |-> 0]
    ELSE
      LET count == Unpack_H(SubSeq(buf, 1, 2)).v
          payload_count == count - 5
      IN IF payload_count < 0
         THEN [status |-> "StructError", fid |-> 0, payload |-> <<>>,
               used |-> 2]
         ELSE IF Len(buf) < count
         THEN [status |-> "blocked", fid |-> 0, payload |-> <<>>,
               used |-> 0]
         ELSE
           LET fid == buf[3]
               payload == SubSeq(buf, 4, 3 + payload_count)
               crc == Unpack_H(SubSeq(buf, count - 1, count)).v
               check == Pack_H(count) \o Pack_B(fid) \o payload
               crc_check == Crc(check)
           IN [status |-> IF crc = crc_check THEN "ok"
                          ELSE "ChecksumMismatch",
               fid |-> fid, payload |-> payload, used |-> count - 1]

\* _recvMessage on the unread input buf.  used is the number of bytes the
\* reads consumed.  status "blocked": fp.read waits for bytes that are not
\* there yet.  status "StructError": count < 5 makes the format string
\* '>B-1sH' (and so on), which Struct() rejects before anything more is read.
RecvMessage(buf) ==
    IF Len(buf) < 2
    THEN [status |-> "blocked", fid |-> 0, payload |-> <<>>, used |-> 0]
    ELSE
      LET count == Unpack_H(SubSeq(buf, 1, 2)).v
          payload_count == count - 5
      IN IF payload_count < 0
         THEN [status |-> "StructError", fid |-> 0, payload |-> <<>>,
               used |-> 2]
         ELSE IF Len(buf) < count
         THEN [status |-> "blocked", fid |-> 0, payload |-> <<>>,
               used |-> 0]
         ELSE
           LET fid == buf[3]
               payload == SubSeq(buf, 4, 3 + payload_count)
               crc == Unpack_H(SubSeq(buf, count - 1, count)).v
               check == Pack_H(count) \o Pack_B(fid) \o payload
               crc_check == Crc(check)
           IN [status |-> IF crc = crc_check THEN "ok"
                          ELSE "ChecksumMismatch",
               fid |-> fid, payload |-> payload, used |-> count]

\* Mutant of RecvSpecific: the frame id is not compared.
RecvSpecific_AnyFrame(m, expected_frame_id) ==
    IF m.status # "ok" THEN [status |-> m.status, info |-> <<>>]
    ELSE [status |-> "ok", info |-> <<>>]

\* _recvSpecificMessage applied to what _recvMessage returned: the status
\* of the call and, for UnexpectedFrame, the frame id the message names.
RecvSpecific(m, expected_frame_id) ==
    IF m.status # "ok" THEN [status |-> m.status, info |-> <<>>]
    ELSE IF m.fid = expected_frame_id THEN [status |-> "ok", info |-> <<>>]
    ELSE [status |-> "UnexpectedFrame", info |-> <<m.fid>>]

\* ------------------------------------------------------- command results
\* What a command gives its caller: status "ok" and the returned value
\* (value = <<>> for None), or the exception's name with value = <<>> and
\* the number the exception's message carries in info.
\*   ChecksumMismatch      IOError('CRC-16 checksum failed.')
\*   UnexpectedFrame       IOError('Response has unexpected frame id: ..')
\*   UnexpectedResponseId  IOError('Response has unexpected configuration id')
\*   ProtocolMismatch      IOError('Expected param ID of 3 / axis ID of 1')
\*   SaveFailed            IOError('Save failed with error code ..')
\*   InvalidArgument       AssertionError
\*   UnknownIdentifier     KeyError
\*   StructError           struct.error
\*   IndexError, TypeError the Python exceptions of these names
Running == [status |-> "running", value |-> <<>>, info |-> <<>>]
Ok(v) == [status |-> "ok", value |-> <<v>>, info |-> <<>>]
OkNone == [status |-> "ok", value |-> <<>>, info |-> <<>>]
Fail(s, i) == [status |-> s, value |-> <<>>, info |-> i]

\* _createDatum(data): every missing field becomes None, then Datum(**data),
\* which raises TypeError for a keyword that is no field of Datum.
CreateDatum(data) ==
    LET full == [f \in (DatumFields \cup DOMAIN data) |->
                    IF f \in DOMAIN data THEN data[f] ELSE <<>>]
    IN IF DOMAIN full \subseteq DatumFields
       THEN Ok([f \in DatumFields |-> full[f]])
       ELSE Fail("TypeError", <<>>)

RECURSIVE GetDataLoop(_, _, _, _, _)
\* The while loop of getData and the return after it.
GetDataLoop(payload, comp_count, comp_index, offset, data) ==
    IF comp_index >= comp_count THEN CreateDatum(data)
    ELSE IF offset >= Len(payload) THEN Fail("IndexError", <<>>)
    ELSE
      LET component_id == payload[offset + 1]
      IN IF component_id \notin DOMAIN components
         THEN Fail("UnknownIdentifier", <<component_id>>)
         ELSE
           LET component == components[component_id]
               size == StructSize(component.struct)
               datum == Slice(payload, offset + 1, offset + size + 1)
               u == StructUnpack(component.struct, datum)
           IN IF ~u.ok THEN Fail("StructError", <<>>)
              ELSE GetDataLoop(payload, comp_count, comp_index + 1,
                               offset + 1 + size,
                               [k \in (DOMAIN data \cup {component.name}) |->
                                   IF k = component.name THEN <<u.v>>
                                   ELSE data[k]])

\* Mutant of GetDataDecode: an unknown component id ends the decoding and
\* the Datum holds what was decoded before it.
GetDataDecode_PartialOnUnknown(payload) ==
    IF payload = <<>> THEN Fail("IndexError", <<>>)
    ELSE LET r == GetDataLoop(payload, payload[1], 0, 1, <<>>)
             before == GetDataLoop(payload, 1, 0, 1, <<>>)
         IN IF r.status # "UnknownIdentifier" THEN r
            ELSE IF before.status = "ok" THEN before
            ELSE CreateDatum(<<>>)

\* getData after the response payload has arrived.
GetDataDecode(payload) ==
    IF payload = <<>> THEN Fail("IndexError", <<>>)
    ELSE GetDataLoop(payload, payload[1], 0, 1, <<>>)

\* getModelInfo after the response payload has arrived.
GetModelInfoDecode(payload) ==
    IF Len(payload) # 8 THEN Fail("StructError", <<>>)
    ELSE Ok([Type |-> SubSeq(payload, 1, 4),
             Revision |-> SubSeq(payload, 5, 8)])

\* Mutant of GetConfigDecode: the echoed id is not compared with the
\* requested one.
GetConfigDecode_NoIdCheck(config_id, response) ==
    IF response = <<>> THEN Fail("IndexError", <<>>)
    ELSE IF response[1] \notin DOMAIN config
    THEN Fail("UnknownIdentifier", <<response[1]>>)
    ELSE LET u == StructUnpack(config[response[1]].struct,
                               Slice(response, 1, Len(response)))
         IN IF u.ok THEN Ok(u.v) ELSE Fail("StructError", <<>>)

\* getConfig after the response payload has arrived.
GetConfigDecode(config_id, response) ==
    IF response = <<>> THEN Fail("IndexError", <<>>)
    ELSE
      LET response_id == response[1]
      IN IF response_id = config_id
         THEN IF config_id \notin DOMAIN config
              THEN Fail("UnknownIdentifier", <<config_id>>)
              ELSE LET u == StructUnpack(config[config_id].struct,
                                         Slice(response, 1, Len(response)))
                   IN IF u.ok THEN Ok(u.v) ELSE Fail("StructError", <<>>)
         ELSE Fail("UnexpectedResponseId", <<response_id>>)

\* struct.unpack('>{count}d', s)
UnpackDoubles(count, s) ==
    IF Len(s) # 8 * count THEN StructFail
    ELSE [ok |-> TRUE,
          v |-> [i \in 1..count |->
                    Unpack_d(SubSeq(s, 8 * i - 7, 8 * i)).v]]

\* Mutant of GetFilterDecode: the axis id is not compared with 1.
GetFilterDecode_NoAxisCheck(payload_response) ==
    IF Len(payload_response) < 3 THEN Fail("StructError", <<>>)
    ELSE
      LET param_id == payload_response[1]
          count == payload_response[3]
          fir == UnpackDoubles(count, Slice(payload_response, 3,
                                            Len(payload_response)))
      IN IF param_id # 3 THEN Fail("ProtocolMismatch", <<param_id>>)
         ELSE IF ~fir.ok THEN Fail("StructError", <<>>)
         ELSE Ok(fir.v)

\* getFilter after the response payload has arrived.
GetFilterDecode(payload_response) ==
    IF Len(payload_response) < 3 THEN Fail("StructError", <<>>)
    ELSE
      LET param_id == payload_response[1]
          axis_id == payload_response[2]
          count == payload_response[3]
          fir == UnpackDoubles(count, Slice(payload_response, 3,
                                            Len(payload_response)))
      IN IF param_id # 3 THEN Fail("ProtocolMismatch", <<param_id>>)
         ELSE IF axis_id # 1 THEN Fail("ProtocolMismatch", <<axis_id>>)
         ELSE IF ~fir.ok THEN Fail("StructError", <<>>)
         ELSE Ok(fir.v)

\* getAcquisitionParams after the response payload has arrived.
GetAcquisitionParamsDecode(payload) ==
    IF Len(payload) # 10 THEN Fail("StructError", <<>>)
    ELSE Ok([PollingMode |-> payload[1],
             FlushFilter |-> payload[2],
             SensorAcqTime |-> Unpack_f(SubSeq(payload, 3, 6)).v,
             IntervalRespTime |-> Unpack_f(SubSeq(payload, 7, 10)).v])

\* Mutant of SaveDecode: the status code is read little-endian.
SaveDecode_LittleEndian(response) ==
    IF Len(response) # 2 THEN Fail("StructError", <<>>)
    ELSE LET code == 256 * response[2] + response[1]
         IN IF code # 0 THEN Fail("SaveFailed", <<code>>) ELSE OkNone

\* save after the response payload has arrived.
SaveDecode(response) ==
    LET u == Unpack_H(response)
    IN IF ~u.ok THEN Fail("StructError", <<>>)
       ELSE IF u.v # 0 THEN Fail("SaveFailed", <<u.v>>)
       ELSE OkNone

\* The frame id each request/response command passes to
\* _recvSpecificMessage.
ExpectedId(name) ==
    CASE name = "getModelInfo" -> kModInfoResp
      [] name = "getData" -> kDataResp
      [] name = "setConfig" -> kSetConfigDone
      [] name = "getConfig" -> kConfigResp
      [] name = "setFilter" -> kSetParamDone
      [] name = "getFilter" -> kParamResp
      [] name = "setAcquisitionParams" -> kAcqParamsDone
      [] name = "getAcquisitionParams" -> kAcqParamsResp
      [] name = "powerUp" -> kPowerUp
      [] name = "powerDown" -> kPowerDownDone
      [] name = "save" -> kSaveDone

\* What the command does with the payload _recvSpecificMessage returned.
DecodeResponse(o, payload) ==
    CASE o.name = "getModelInfo" -> GetModelInfoDecode(payload)
      [] o.name = "getData" -> GetDataDecode(payload)
      [] o.name = "getConfig" -> GetConfigDecode(o.args[1], payload)
      [] o.name = "getFilter" -> GetFilterDecode(payload)
      [] o.name = "getAcquisitionParams" -> GetAcquisitionParamsDecode(payload)
      [] o.name = "save" -> SaveDecode(payload)
      [] OTHER -> OkNone

\* struct.unpack('>6f', message)
UnpackScores(message) ==
    IF Len(message) # 24 THEN StructFail
    ELSE [ok |-> TRUE,
          v |-> [i \in 1..6 |-> Unpack_f(SubSeq(message, 4 * i - 3, 4 * i)).v]]

\* Mutant of CalibrationStep: a data response ends the call like a sample
\* count.
CalibrationStep_DataReturns(m) ==
    IF m.status # "ok"
    THEN [loop |-> FALSE, res |-> Fail(m.status, <<>>)]
    ELSE IF m.fid = kUserCalSampCount \/ m.fid = kDataResp
    THEN LET u == Unpack_I(SubSeq(m.payload, 1, 4))
         IN [loop |-> FALSE,
             res |-> IF u.ok THEN Ok(<<FALSE, u.v>>)
                     ELSE Fail("StructError", <<>>)]
    ELSE IF m.fid = kUserCalScore
    THEN LET u == UnpackScores(m.payload)
         IN [loop |-> FALSE,
             res |-> IF u.ok THEN Ok(<<TRUE, u.v>>)
                     ELSE Fail("StructError", <<>>)]
    ELSE [loop |-> FALSE, res |-> Fail("UnexpectedFrame", <<m.fid>>)]

\* Mutant of CalibrationStep: a message of any other id is ignored like a
\* data response.
CalibrationStep_OtherIgnored(m) ==
    IF m.status # "ok"
    THEN [loop |-> FALSE, res |-> Fail(m.status, <<>>)]
    ELSE IF m.fid = kUserCalSampCount
    THEN LET u == Unpack_I(m.payload)
         IN [loop |-> FALSE,
             res |-> IF u.ok THEN Ok(<<FALSE, u.v>>)
                     ELSE Fail("StructError", <<>>)]
    ELSE IF m.fid = kUserCalScore
    THEN LET u == UnpackScores(m.payload)
         IN [loop |-> FALSE,
             res |-> IF u.ok THEN Ok(<<TRUE, u.v>>)
                     ELSE Fail("StructError", <<>>)]
    ELSE [loop |-> TRUE, res |-> Running]

\* Mutant of CalibrationStep: a sample count is skipped like a data
\* response.
CalibrationStep_SkipsSampleCount(m) ==
    IF m.status # "ok"
    THEN [loop |-> FALSE, res |-> Fail(m.status, <<>>)]
    ELSE IF m.fid = kUserCalScore
    THEN LET u == UnpackScores(m.payload)
         IN [loop |-> FALSE,
             res |-> IF u.ok THEN Ok(<<TRUE, u.v>>)
                     ELSE Fail("StructError", <<>>)]
    ELSE IF m.fid = kDataResp \/ m.fid = kUserCalSampCount
    THEN [loop |-> TRUE, res |-> Running]
    ELSE [loop |-> FALSE, res |-> Fail("UnexpectedFrame", <<m.fid>>)]

\* One pass of the loop of getCalibrationStatus over a received message:
\* loop is TRUE where the code continues with the next message.
CalibrationStep(m) ==
    IF m.status # "ok"
    THEN [loop |-> FALSE, res |-> Fail(m.status, <<>>)]
    ELSE IF m.fid = kUserCalSampCount
    THEN LET u == Unpack_I(m.payload)
         IN [loop |-> FALSE,
             res |-> IF u.ok THEN Ok(<<FALSE, u.v>>)
                     ELSE Fail("StructError", <<>>)]
    ELSE IF m.fid = kUserCalScore
    THEN LET u == UnpackScores(m.payload)
         IN [loop |-> FALSE,
             res |-> IF u.ok THEN Ok(<<TRUE, u.v>>)
                     ELSE Fail("StructError", <<>>)]
    ELSE IF m.fid = kDataResp
    THEN [loop |-> TRUE, res |-> Running]
    ELSE [loop |-> FALSE, res |-> Fail("UnexpectedFrame", <<m.fid>>)]

\* -------------------------------------------------------- request payloads
\* Mutant of SetFilterArgsOk: the number of coefficients is not checked.
SetFilterArgsOk_NoLengthCheck(count, has, values) ==
    count \in {0, 4, 8, 16, 32}

\* setFilter(count, values): has is FALSE for values=None.  The asserts
\* come first; nothing is packed or sent when one fails.
SetFilterArgsOk(count, has, values) ==
    /\ count \in {0, 4, 8, 16, 32}
    /\ has => Len(values) = count

PackDoubles(values) == Concat([i \in 1..Len(values) |-> Pack_d(values[i])])

SetFilterPayload(count, has, values) ==
    LET vals == IF has THEN values ELSE fir_defaults[count]
    IN Pack_B(3) \o Pack_B(1) \o Pack_B(count) \o PackDoubles(vals)

SetConfigPayload(config_id, value) ==
    Pack_B(config_id) \o StructPack(config[config_id].struct, value)

GetConfigPayload(config_id) == Pack_B(config_id)

GetFilterPayload == Pack_B(3) \o Pack_B(1)

SetDataComponentsPayload(comps) ==
    Pack_B(Len(comps)) \o Concat([i \in 1..Len(comps) |-> Pack_B(comps[i])])

SetAcquisitionParamsPayload(mode, flush_filter, acq_time, resp_time) ==
    Pack_B(mode) \o Pack_B(flush_filter) \o Pack_f(acq_time)
        \o Pack_f(resp_time)

StartCalibrationPayload(mode) == Pack_I(mode)

\* The single byte powerUp writes with _send.
PowerUpBytes == <<255>>

\* ------------------------------------------------------- the device side
\* A frame as the device puts it on the line: its id and payload, for a
\* data response the components the payload was built from, and the bytes.
\* flip = 0: the bytes are the well-formed frame; flip = i > 0: byte i of
\* the well-formed frame was changed on the way.  asked: the frame was sent
\* in answer to a request.
MkFrame(fid, payload, comps) ==
    [fid |-> fid, payload |-> payload, comps |-> comps, flip |-> 0,
     bytes |-> EncodeFrame(fid, payload), asked |-> FALSE]

Flipped(f, pos, mask) ==
    [f EXCEPT !.flip = pos, !.bytes[pos] = XorByte(@, mask)]

NoFrame ==
    [fid |-> 0 - 1, payload |-> <<>>, comps |-> <<>>, flip |-> 0,
     bytes |-> <<>>, asked |-> FALSE]

\* float32 patterns of 1.0 and -2.0
RawOne == <<63, 128, 0, 0>>
RawMinusTwo == <<192, 0, 0, 0>>

\* Components a data response is built from: id and value bytes.  Id 6 is
\* in no registry.
DataItems ==
    {[id |-> 5, raw |-> RawOne], [id |-> 8, raw |-> <<1>>],
     [id |-> 29, raw |-> RawMinusTwo], [id |-> 6, raw |-> <<0>>]}

\* Components in one data response.
MaxComps == 2

CompSeqs == UNION {[1..n -> DataItems] : n \in 0..MaxComps}

DataPayload(comps) ==
    <<Len(comps)>> \o
    Concat([i \in 1..Len(comps) |-> <<comps[i].id>> \o comps[i].raw])

DataFrames == {MkFrame(kDataResp, DataPayload(c), c) : c \in CompSeqs}

ModInfoFrames ==
    {MkFrame(kModInfoResp, <<84, 67, 77, 53, 48, 49, 48, 50>>, <<>>)}

ConfigFrames ==
    {MkFrame(kConfigResp, p, <<>>) :
        p \in {<<1>> \o RawOne, <<2, 1>>, <<10, 3>>, <<12, 0, 0, 1, 2>>,
               <<3, 0>>}}

\* Status codes of save-done: 60868 = 237 * 256 + 196 is Crc(<<0, 5, 16>>).
SaveCodes == {0, 7, 60868}

SaveFrames == {MkFrame(kSaveDone, Pack_H(c), <<>>) : c \in SaveCodes}

DoneFrames ==
    {MkFrame(f, <<>>, <<>>) :
        f \in {kSetConfigDone, kSetParamDone, kAcqParamsDone, kPowerUp,
               kPowerDownDone}}

AcqParamsFrames ==
    {MkFrame(kAcqParamsResp, <<1, 0>> \o RawOne \o RawMinusTwo, <<>>)}

ParamFrames ==
    {MkFrame(kParamResp, p, <<>>) :
        p \in {<<3, 1, 0>>, <<3, 1, 1>> \o Pack_d(Fir4Half[1]),
               <<2, 1, 0>>, <<3, 2, 0>>, <<2, 2, 1>>,
               <<3, 1, 2>> \o Pack_d(Fir4Half[1])}}

SampCountFrame(n) == MkFrame(kUserCalSampCount, Pack_I(n), <<>>)

\* Six scores 1.0 .. 6.0 as float32.
ScoreFrame ==
    MkFrame(kUserCalScore,
            <<63, 128, 0, 0>> \o <<64, 0, 0, 0>> \o <<64, 64, 0, 0>> \o
            <<64, 128, 0, 0>> \o <<64, 160, 0, 0>> \o <<64, 192, 0, 0>>,
            <<>>)

\* Frames with ids outside the protocol's table.
OtherFrames ==
    {MkFrame(f, p, <<>>) : f \in {0, 255}, p \in {<<>>, <<0>>, <<255, 1>>}}

WellFormedFrames ==
    DataFrames \cup ModInfoFrames \cup ConfigFrames \cup SaveFrames
    \cup DoneFrames \cup AcqParamsFrames \cup ParamFrames
    \cup {SampCountFrame(1), SampCountFrame(2), ScoreFrame} \cup OtherFrames

\* Frames that may arrive with one byte changed, and the changes.
FlipBase ==
    {MkFrame(kSaveDone, Pack_H(60868), <<>>),
     MkFrame(kSetConfigDone, <<>>, <<>>),
     SampCountFrame(1)}

FlipMasks == {1, 2, 255}

FlippedFrames ==
    UNION {{Flipped(f, pos, mask) :
               pos \in 1..Len(f.bytes), mask \in FlipMasks} : f \in FlipBase}

\* What the device may send in answer to a request.
ResponseFrames == WellFormedFrames \cup FlippedFrames

\* What the device may send unasked: streamed data, calibration progress and
\* score, and a stray acknowledgement.
StreamFrames ==
    {MkFrame(kDataResp, DataPayload(<<[id |-> 5, raw |-> RawOne]>>),
             <<[id |-> 5, raw |-> RawOne]>>),
     SampCountFrame(1), SampCountFrame(2), ScoreFrame,
     MkFrame(kSetConfigDone, <<>>, <<>>)}

\* ------------------------------------------------------------------ state
VARIABLES
    inbuf,      \* bytes the serial port holds for fp.read
    lastWrite,  \* the bytes of the latest fp.write
    pc,         \* "idle", or where the running command waits:
                \*   "recv" in _recvSpecificMessage, "cal" in the loop of
                \*   getCalibrationStatus, "flush" before fp.flushInput
    op,         \* the running (or latest) command: [name, args]
    res,        \* what it gave its caller
    nWrites,    \* fp.write calls of the running (or latest) command
    nReads,     \* _recvMessage calls of it that returned or raised
    wire,       \* history: the device's frames whose bytes are in inbuf
    synced,     \* history: inbuf starts at the first byte of Head(wire)
    rx,         \* history: the latest _recvMessage and the frame it met
    obs,        \* history: what the status steps of the session returned
    calRx,      \* history: the frames the status steps of the session met
    afterStop   \* history: the command called before this one was
                \*   stopStreaming

vars == <<inbuf, lastWrite, pc, op, res, nWrites, nReads, wire, synced,
          rx, obs, calRx, afterStop>>

NoRx ==
    [aligned |-> FALSE, src |-> NoFrame, status |-> "none", fid |-> 0,
     payload |-> <<>>, used |-> 0]

Init ==
    /\ inbuf = <<>>
    /\ lastWrite = <<>>
    /\ pc = "idle"
    /\ op = [name |-> "none", args |-> <<>>]
    /\ res = Running
    /\ nWrites = 0
    /\ nReads = 0
    /\ wire = <<>>
    /\ synced = TRUE
    /\ rx = NoRx
    /\ obs = <<>>
    /\ calRx = <<>>
    /\ afterStop = FALSE

\* ------------------------------------------------------------ the channel
\* The device answers the request the driver waits on, with any frame,
\* unless an answer is still unread in the channel.
DeviceRespond ==
    /\ pc = "recv"
    /\ \A i \in 1..Len(wire) : ~wire[i].asked
    /\ \E f \in ResponseFrames :
          /\ inbuf' = inbuf \o f.bytes
          /\ wire' = Append(wire, [f EXCEPT !.asked = TRUE])
    /\ UNCHANGED <<lastWrite, pc, op, res, nWrites, nReads, synced, rx, obs,
                   calRx, afterStop>>

\* The device sends a frame unasked.
DeviceStream ==
    /\ Len(wire) < MaxQueue
    /\ \E f \in StreamFrames :
          /\ inbuf' = inbuf \o f.bytes
          /\ wire' = Append(wire, f)
    /\ UNCHANGED <<lastWrite, pc, op, res, nWrites, nReads, synced, rx, obs,
                   calRx, afterStop>>

\* _recvMessage takes m.used bytes off the input; the history follows.
Consume(m) ==
    LET aligned == synced /\ wire # <<>>
        exact == aligned /\ m.used = Len(Head(wire).bytes)
        rest == SubSeq(inbuf, m.used + 1, Len(inbuf))
    IN /\ inbuf' = rest
       /\ rx' = [aligned |-> aligned,
                 src |-> IF aligned THEN Head(wire) ELSE NoFrame,
                 status |-> m.status, fid |-> m.fid, payload |-> m.payload,
                 used |-> m.used]
       /\ wire' = IF rest = <<>> THEN <<>>
                  ELSE IF exact THEN Tail(wire) ELSE wire
       /\ synced' = (rest = <<>> \/ exact)

\* ----------------------------------------------------------- the commands
\* A command starts: it writes bytes and then waits at pc' = next.
Start(name, args, bytes, next) ==
    /\ pc = "idle"
    /\ op' = [name |-> name, args |-> args]
    /\ lastWrite' = bytes
    /\ nWrites' = 1
    /\ nReads' = 0
    /\ pc' = next
    /\ res' = IF next = "idle" THEN OkNone ELSE Running
    /\ rx' = NoRx
    /\ obs' = <<>>
    /\ calRx' = <<>>
    /\ afterStop' = (op.name = "stopStreaming")
    /\ UNCHANGED <<inbuf, wire, synced>>

\* Mutant of Reject: the command raises after it has written a byte.
Reject_AfterWrite(name, args, status, info) ==
    /\ pc = "idle"
    /\ op' = [name |-> name, args |-> args]
    /\ lastWrite' = <<255>>
    /\ nWrites' = 1
    /\ nReads' = 0
    /\ res' = Fail(status, info)
    /\ rx' = NoRx
    /\ obs' = <<>>
    /\ calRx' = <<>>
    /\ afterStop' = (op.name = "stopStreaming")
    /\ UNCHANGED <<inbuf, pc, wire, synced>>

\* A command raises before it has written anything.
Reject(name, args, status, info) ==
    /\ pc = "idle"
    /\ op' = [name |-> name, args |-> args]
    /\ nWrites' = 0
    /\ nReads' = 0
    /\ res' = Fail(status, info)
    /\ rx' = NoRx
    /\ obs' = <<>>
    /\ calRx' = <<>>
    /\ afterStop' = (op.name = "stopStreaming")
    /\ UNCHANGED <<inbuf, lastWrite, pc, wire, synced>>

\* The bytes each command writes, for the arguments the model tries.
GetModelInfoBytes == EncodeFrame(kGetModInfo, <<>>)
GetDataBytes == EncodeFrame(kGetData, <<>>)
GetFilterBytes == EncodeFrame(kGetParam, GetFilterPayload)
GetAcquisitionParamsBytes == EncodeFrame(kGetAcqParams, <<>>)
StartStreamingBytes == EncodeFrame(kStartIntervalMode, <<>>)
StopStreamingBytes == EncodeFrame(kStopIntervalMode, <<>>)
PowerDownBytes == EncodeFrame(kPowerDown, <<>>)
SaveBytes == EncodeFrame(kSave, <<>>)

GetModelInfo == Start("getModelInfo", <<>>, GetModelInfoBytes, "recv")

GetData == Start("getData", <<>>, GetDataBytes, "recv")

\* Arguments of setConfig: a value for each id tried; id 3 is in no
\* registry.
SetConfigValue ==
    (1 :> [s |-> 0, e |-> 127, m |-> 0]) @@ (2 :> TRUE) @@ (10 :> 3) @@
    (12 :> 258) @@ (3 :> 0)

\* self.config[config_id] raises KeyError before anything is sent.
SetConfigBytes ==
    [config_id \in DOMAIN SetConfigValue |->
        IF config_id \in DOMAIN config
        THEN EncodeFrame(kSetConfig,
                         SetConfigPayload(config_id,
                                          SetConfigValue[config_id]))
        ELSE <<>>]

SetConfig ==
    \E config_id \in DOMAIN SetConfigValue :
       IF config_id \in DOMAIN config
       THEN Start("setConfig", <<config_id>>, SetConfigBytes[config_id],
                  "recv")
       ELSE Reject("setConfig", <<config_id>>, "UnknownIdentifier",
                   <<config_id>>)

GetConfigIds == {1, 2, 3, 10, 12}

GetConfigBytes ==
    [config_id \in GetConfigIds |->
        EncodeFrame(kGetConfig, GetConfigPayload(config_id))]

GetConfig ==
    \E config_id \in GetConfigIds :
       Start("getConfig", <<config_id>>, GetConfigBytes[config_id], "recv")

\* Arguments of setFilter: <<count, values given, values>>.
SetFilterArgs ==
    {<<0, FALSE, <<>> >>, <<4, FALSE, <<>> >>, <<8, FALSE, <<>> >>,
     <<16, FALSE, <<>> >>, <<32, FALSE, <<>> >>, <<5, FALSE, <<>> >>,
     <<0, TRUE, <<>> >>,
     <<4, TRUE, <<Fir8Half[1], Fir8Half[2], Fir8Half[3], Fir8Half[4]>> >>,
     <<4, TRUE, <<Fir8Half[1], Fir8Half[2], Fir8Half[3]>> >>,
     <<0, TRUE, <<Fir8Half[1]>> >>,
     <<1, TRUE, <<Fir8Half[1]>> >>}

\* The asserts of setFilter come before anything is packed or sent.
SetFilterBytes ==
    [a \in SetFilterArgs |->
        IF SetFilterArgsOk(a[1], a[2], a[3])
        THEN EncodeFrame(kSetParam, SetFilterPayload(a[1], a[2], a[3]))
        ELSE <<>>]

SetFilter ==
    \E a \in SetFilterArgs :
       IF SetFilterArgsOk(a[1], a[2], a[3])
       THEN Start("setFilter", a, SetFilterBytes[a], "recv")
       ELSE Reject("setFilter", a, "InvalidArgument", <<>>)

GetFilter == Start("getFilter", <<>>, GetFilterBytes, "recv")

SetDataComponentsArgs == {<<>>, <<5>>, <<5, 8, 29>>}

SetDataComponentsBytes ==
    [comps \in SetDataComponentsArgs |->
        EncodeFrame(kSetDataComponents, SetDataComponentsPayload(comps))]

SetDataComponents ==
    \E comps \in SetDataComponentsArgs :
       Start("setDataComponents", <<comps>>, SetDataComponentsBytes[comps],
             "idle")

\* setAcquisitionParams(True, False, 0.0, 0.1) as main() calls it.
SetAcquisitionParamsBytes ==
    EncodeFrame(kSetAcqParams,
                SetAcquisitionParamsPayload(
                    1, 0, [s |-> 0, e |-> 0, m |-> 0],
                    [s |-> 0, e |-> 123, m |-> 5033165]))

SetAcquisitionParams ==
    Start("setAcquisitionParams", <<>>, SetAcquisitionParamsBytes, "recv")

GetAcquisitionParams ==
    Start("getAcquisitionParams", <<>>, GetAcquisitionParamsBytes, "recv")

\* Mutant of StartStreaming: the buffered input is discarded after the
\* write.
StartStreaming_Flushes ==
    /\ pc = "idle"
    /\ op' = [name |-> "startStreaming", args |-> <<>>]
    /\ lastWrite' = StartStreamingBytes
    /\ nWrites' = 1
    /\ nReads' = 0
    /\ res' = OkNone
    /\ rx' = NoRx
    /\ obs' = <<>>
    /\ calRx' = <<>>
    /\ afterStop' = (op.name = "stopStreaming")
    /\ inbuf' = <<>>
    /\ wire' = <<>>
    /\ synced' = TRUE
    /\ UNCHANGED pc

StartStreaming == Start("startStreaming", <<>>, StartStreamingBytes, "idle")

\* stopStreaming up to its write; fp.flushInput follows in StopStreamingFlush.
StopStreaming == Start("stopStreaming", <<>>, StopStreamingBytes, "flush")

\* Mutant of StopStreamingFlush: the call returns and the buffered input
\* stays.
StopStreamingFlush_KeepsInput ==
    /\ pc = "flush"
    /\ pc' = "idle"
    /\ res' = OkNone
    /\ UNCHANGED <<inbuf, wire, synced, lastWrite, op, nWrites, nReads, rx,
                   obs, calRx, afterStop>>

\* fp.flushInput() of stopStreaming, and the return.
StopStreamingFlush ==
    /\ pc = "flush"
    /\ inbuf' = <<>>
    /\ wire' = <<>>
    /\ synced' = TRUE
    /\ pc' = "idle"
    /\ res' = OkNone
    /\ UNCHANGED <<lastWrite, op, nWrites, nReads, rx, obs, calRx, afterStop>>

PowerUp == Start("powerUp", <<>>, PowerUpBytes, "recv")

PowerDown == Start("powerDown", <<>>, PowerDownBytes, "recv")

Save == Start("save", <<>>, SaveBytes, "recv")

CalibrationModes == {10, 110}

StartCalibrationBytes ==
    [mode \in CalibrationModes |->
        EncodeFrame(kStartCal, StartCalibrationPayload(mode))]

StartCalibration ==
    \E mode \in CalibrationModes :
       Start("startCalibration", <<mode>>, StartCalibrationBytes[mode],
             "idle")

\* Mutant of Return: after a checksum failure the command receives again.
Return_RetryOnChecksum ==
    /\ pc = "recv"
    /\ LET m == RecvMessage(inbuf)
           r == RecvSpecific(m, ExpectedId(op.name))
           again == m.status = "ChecksumMismatch"
       IN /\ m.status # "blocked"
          /\ Consume(m)
          /\ res' = IF again THEN Running
                    ELSE IF r.status # "ok" THEN Fail(r.status, r.info)
                    ELSE DecodeResponse(op, m.payload)
          /\ pc' = IF again THEN "recv" ELSE "idle"
    /\ nReads' = nReads + 1
    /\ UNCHANGED <<lastWrite, op, nWrites, obs, calRx, afterStop>>

\* A request/response command gets its frame (or its failure) and returns.
Return ==
    /\ pc = "recv"
    /\ LET m == RecvMessage(inbuf)
           r == RecvSpecific(m, ExpectedId(op.name))
       IN /\ m.status # "blocked"
          /\ Consume(m)
          /\ res' = IF r.status # "ok" THEN Fail(r.status, r.info)
                    ELSE DecodeResponse(op, m.payload)
    /\ nReads' = nReads + 1
    /\ pc' = "idle"
    /\ UNCHANGED <<lastWrite, op, nWrites, obs, calRx, afterStop>>

\* getCalibrationStatus is called, in a session startCalibration began: it
\* writes nothing and enters its loop.
GetCalibrationStatus ==
    /\ pc = "idle"
    /\ op.name \in {"startCalibration", "getCalibrationStatus"}
    /\ Len(calRx) < MaxCalFrames
    /\ op' = [name |-> "getCalibrationStatus", args |-> <<>>]
    /\ pc' = "cal"
    /\ res' = Running
    /\ nWrites' = 0
    /\ nReads' = 0
    /\ rx' = NoRx
    /\ afterStop' = FALSE
    /\ UNCHANGED <<inbuf, lastWrite, wire, synced, obs, calRx>>

\* One pass of the loop of getCalibrationStatus: a message is received; the
\* call returns, raises, or (data response) goes round again.  The history
\* of the session starts afresh when the call raises.
CalRecv ==
    /\ pc = "cal"
    /\ Len(calRx) < MaxCalFrames
    /\ \E m \in {RecvMessage(inbuf)} :
       \E step \in {CalibrationStep(m)} :
          LET failed == ~step.loop /\ step.res.status # "ok"
          IN /\ m.status # "blocked"
             /\ Consume(m)
             /\ res' = step.res
             /\ pc' = IF step.loop THEN "cal" ELSE "idle"
             /\ obs' = IF failed THEN <<>>
                       ELSE IF step.loop THEN obs
                       ELSE Append(obs, step.res.value[1])
             /\ calRx' = IF failed THEN <<>> ELSE Append(calRx, rx'.src)
    /\ nReads' = nReads + 1
    /\ UNCHANGED <<lastWrite, op, nWrites, afterStop>>

Next ==
    \/ DeviceRespond
    \/ DeviceStream
    \/ GetModelInfo
    \/ GetData
    \/ SetConfig
    \/ GetConfig
    \/ SetFilter
    \/ GetFilter
    \/ SetDataComponents
    \/ SetAcquisitionParams
    \/ GetAcquisitionParams
    \/ StartStreaming
    \/ StopStreaming
    \/ StopStreamingFlush
    \/ PowerUp
    \/ PowerDown
    \/ Save
    \/ StartCalibration
    \/ GetCalibrationStatus
    \/ Return
    \/ CalRecv

Spec == Init /\ [][Next]_vars

\* A device that does not stream: it sends nothing unasked, and answers the
\* request the driver waits on with exactly one well-formed frame of the
\* awaited id.
DeviceAnswer ==
    /\ pc = "recv"
    /\ wire = <<>>
    /\ \E f \in WellFormedFrames :
          /\ f.fid = ExpectedId(op.name)
          /\ inbuf' = inbuf \o f.bytes
          /\ wire' = <<[f EXCEPT !.asked = TRUE]>>
    /\ UNCHANGED <<lastWrite, pc, op, res, nWrites, nReads, synced, rx, obs,
                   calRx, afterStop>>

\* The commands against that device.  getCalibrationStatus, which would
\* wait for ever on a device that sends nothing unasked, is left out.
SyncNext ==
    \/ DeviceAnswer
    \/ GetModelInfo
    \/ GetData
    \/ SetConfig
    \/ GetConfig
    \/ SetFilter
    \/ GetFilter
    \/ SetDataComponents
    \/ SetAcquisitionParams
    \/ GetAcquisitionParams
    \/ StartStreaming
    \/ StopStreaming
    \/ StopStreamingFlush
    \/ PowerUp
    \/ PowerDown
    \/ Save
    \/ StartCalibration
    \/ Return

SyncSpec == Init /\ [][SyncNext]_vars

\* A calibration session alone: startCalibration, the frames the device
\* sends unasked, and the status steps.
CalNext ==
    \/ StartCalibration
    \/ DeviceStream
    \/ GetCalibrationStatus
    \/ CalRecv

\* The driver is one blocking thread: a read of getCalibrationStatus that
\* can complete does complete.
CalSpec == Init /\ [][CalNext]_vars /\ WF_vars(CalRecv)

\* ================================================================= claims
\* A frame the device sent well-formed and _recvMessage met at its first
\* byte.
MetWellFormed == rx.aligned /\ rx.src.flip = 0

\* A request/response command has returned or raised after its one
\* _recvMessage.
Returned(name) == pc = "idle" /\ op.name = name /\ nReads = 1

\* C1: frame round trip.  Whenever _recvMessage is fed, unchanged, the bytes
\* _sendMessage builds for a frame id F and a payload P, it returns exactly
\* (F, P), having read exactly those bytes, and does not fail.
C1_RoundTrip ==
    MetWellFormed =>
        /\ rx.status = "ok"
        /\ rx.fid = rx.src.fid
        /\ rx.payload = rx.src.payload
        /\ rx.used = Len(rx.src.bytes)

\* C1 witness: the frame with id 255 and payload <<255, 1>> came back.
C1_Witness ==
    /\ MetWellFormed
    /\ rx.src.fid = 255
    /\ rx.src.payload = <<255, 1>>
    /\ rx.status = "ok"
    /\ rx.payload = <<255, 1>>

\* The ids of the data-component registry as the claim lists them, and the
\* Datum slot of each.
RegistryIds == {5, 7, 8, 9, 21, 22, 23, 24, 25, 27, 28, 29}

SlotOf(id) ==
    CASE id = 5 -> "Heading"
      [] id = 7 -> "Temperature"
      [] id = 8 -> "Distortion"
      [] id = 9 -> "CalStatus"
      [] id = 21 -> "PAligned"
      [] id = 22 -> "RAligned"
      [] id = 23 -> "IZAligned"
      [] id = 24 -> "PAngle"
      [] id = 25 -> "RAngle"
      [] id = 27 -> "KXAligned"
      [] id = 28 -> "KYAligned"
      [] id = 29 -> "KZAligned"

\* The value a slot is to hold: that of the last component with this id,
\* decoded as a boolean (ids 8, 9) or a float32.
SlotValue(comps, id) ==
    LET last == CHOOSE i \in 1..Len(comps) :
                    /\ comps[i].id = id
                    /\ \A j \in (i + 1)..Len(comps) : comps[j].id # id
    IN IF id \in {8, 9} THEN Unpack_bool(comps[last].raw).v
       ELSE Unpack_f(comps[last].raw).v

\* getData has returned on a well-formed data response whose component ids
\* are all in the registry.
GotRegistryData ==
    /\ Returned("getData")
    /\ MetWellFormed
    /\ rx.src.fid = kDataResp
    /\ \A i \in 1..Len(rx.src.comps) : rx.src.comps[i].id \in RegistryIds

\* C2: for every data response whose component ids are all in the
\* registry, getData returns a Datum in which the slot of each id present
\* holds the decoded value and every other slot is None.
C2_ExactSlots ==
    GotRegistryData =>
        /\ res.status = "ok"
        /\ \A id \in RegistryIds :
              LET present == \E i \in 1..Len(rx.src.comps) :
                                 rx.src.comps[i].id = id
              IN res.value[1][SlotOf(id)] =
                    IF present THEN <<SlotValue(rx.src.comps, id)>>
                    ELSE <<>>

\* What C2 says holds for the responses that carry none of the ids 27, 28
\* and 29 (the response {5: 1.0, 8: true} among them).
C2_ExactSlotsWithoutAxes ==
    (GotRegistryData /\ \A i \in 1..Len(rx.src.comps) :
                            rx.src.comps[i].id \notin {27, 28, 29})
    => C2_ExactSlots

\* The frames a calibration session is fed in claim C3: sample counts and
\* data responses, then at most one score, which is the last.
CalibrationFeed(frames) ==
    \A i \in 1..Len(frames) :
       /\ frames[i].flip = 0
       /\ \/ frames[i].fid \in {kUserCalSampCount, kDataResp}
          \/ frames[i].fid = kUserCalScore /\ i = Len(frames)

\* The six scores of ScoreFrame: 1.0, 2.0, 3.0, 4.0, 5.0, 6.0.
ScoresOneToSix ==
    <<[s |-> 0, e |-> 127, m |-> 0], [s |-> 0, e |-> 128, m |-> 0],
      [s |-> 0, e |-> 128, m |-> 4194304], [s |-> 0, e |-> 129, m |-> 0],
      [s |-> 0, e |-> 129, m |-> 2097152],
      [s |-> 0, e |-> 129, m |-> 4194304]>>

RECURSIVE ExpectedObs(_)
\* Progress(n) is <<FALSE, n>>, Converged(scores) is <<TRUE, scores>>.
ExpectedObs(frames) ==
    IF frames = <<>> THEN <<>>
    ELSE LET f == Head(frames)
             rest == ExpectedObs(Tail(frames))
         IN IF f.fid = kUserCalSampCount
            THEN << <<FALSE, 16777216 * f.payload[1] + 65536 * f.payload[2]
                             + 256 * f.payload[3] + f.payload[4]>> >> \o rest
            ELSE IF f.fid = kUserCalScore
            THEN << <<TRUE, ScoresOneToSix>> >> \o rest
            ELSE rest

\* C3: for frames made of sample counts and data responses followed by one
\* score, the status steps yield, in order, one Progress(n) per sample-count
\* frame and then Converged(scores); data responses yield nothing.
C3_ObservationSequence ==
    CalibrationFeed(calRx) => obs = ExpectedObs(calRx)

\* C3 witness: [sampleCount(1), sampleCount(2), dataFrame, score] has been
\* consumed and yielded Progress(1), Progress(2), Converged.
C3_Witness ==
    /\ Len(calRx) = 4
    /\ calRx[1].fid = kUserCalSampCount /\ calRx[1].payload = <<0, 0, 0, 1>>
    /\ calRx[2].fid = kUserCalSampCount /\ calRx[2].payload = <<0, 0, 0, 2>>
    /\ calRx[3].fid = kDataResp
    /\ calRx[4].fid = kUserCalScore
    /\ pc = "idle"
    /\ obs = << <<FALSE, 1>>, <<FALSE, 2>>, <<TRUE, ScoresOneToSix>> >>

\* C4 as claimed: a frame with any single byte changed, the length bytes
\* included, makes _recvMessage fail with ChecksumMismatch.
C4_AnyByteFlip ==
    (rx.aligned /\ rx.src.flip > 0) => rx.status = "ChecksumMismatch"

\* C4 as amended: a frame with a single byte changed after the two length
\* bytes (the frame id, a payload byte or a crc byte) makes _recvMessage
\* fail with ChecksumMismatch; it returns no frame.
C4_ByteFlipAfterLength ==
    (rx.aligned /\ rx.src.flip > 2) =>
        /\ rx.status = "ChecksumMismatch"
        /\ res.status = "ChecksumMismatch"
        /\ res.value = <<>>

\* C4 witness: the last crc byte of a frame was changed and the read failed.
C4_Witness ==
    /\ rx.aligned
    /\ rx.src.flip = Len(rx.src.bytes)
    /\ rx.status = "ChecksumMismatch"

\* C5: every write is the single byte 0xFF of powerUp, or a frame whose
\* big-endian length field is the number of bytes written (payload size + 5)
\* and whose last two bytes are the big-endian checksum of all bytes before
\* them.
C5_WritesWellFormed ==
    /\ op.name = "powerUp" => lastWrite = <<255>>
    /\ nWrites > 0 =>
          \/ lastWrite = <<255>> /\ op.name = "powerUp"
          \/ LET n == Len(lastWrite)
             IN /\ n >= 5
                /\ 256 * lastWrite[1] + lastWrite[2] = n
                /\ 256 * lastWrite[n - 1] + lastWrite[n] =
                      Crc(SubSeq(lastWrite, 1, n - 2))

\* C5 witness: setFilter(32) has written its frame of 3 + 256 payload bytes.
C5_Witness ==
    /\ op.name = "setFilter"
    /\ nWrites = 1
    /\ Len(lastWrite) = 264

\* The frame id each request/response command awaits, as claim C6 lists
\* them.
AwaitedId ==
    [getModelInfo |-> 2, getData |-> 5, setConfig |-> 19, getConfig |-> 8,
     setFilter |-> 20, getFilter |-> 14, setAcquisitionParams |-> 26,
     getAcquisitionParams |-> 27, powerUp |-> 23, powerDown |-> 28,
     save |-> 16]

\* C6: each request/response command awaits one frame id; when the next
\* well-formed frame carries another id the command fails with
\* UnexpectedFrame carrying that id and returns nothing, and when it carries
\* the awaited id the command does not fail so.
C6_ResponseCorrelation ==
    \A name \in DOMAIN AwaitedId :
       (Returned(name) /\ MetWellFormed) =>
           IF rx.src.fid # AwaitedId[name]
           THEN res = [status |-> "UnexpectedFrame", value |-> <<>>,
                       info |-> <<rx.src.fid>>]
           ELSE res.status # "UnexpectedFrame"

\* C6 witness: getFilter met a data response and failed with
\* UnexpectedFrame{5}.
C6_Witness ==
    /\ Returned("getFilter")
    /\ MetWellFormed
    /\ rx.src.fid = 5
    /\ res.status = "UnexpectedFrame"
    /\ res.info = <<5>>

\* C7: when a data response holds a component id that is not in the
\* registry, at any position, getData fails with UnknownIdentifier and
\* returns no Datum, whatever was decoded before that id.
C7_NoPartialDatum ==
    (/\ Returned("getData")
     /\ MetWellFormed
     /\ rx.src.fid = kDataResp
     /\ \E i \in 1..Len(rx.src.comps) : rx.src.comps[i].id \notin RegistryIds)
    => /\ res.status = "UnknownIdentifier"
       /\ res.value = <<>>

\* C7 witness: the response {5: 1.0, 6: ..} made getData fail, the heading
\* decoded before the unknown id 6 is not returned.
C7_Witness ==
    /\ Returned("getData")
    /\ MetWellFormed
    /\ Len(rx.src.comps) = 2
    /\ rx.src.comps[1].id = 5
    /\ rx.src.comps[2].id = 6
    /\ res.status = "UnknownIdentifier"
    /\ res.value = <<>>

\* getConfig has returned on a well-formed config response that holds an
\* id byte.
GotConfigResponse ==
    /\ Returned("getConfig")
    /\ MetWellFormed
    /\ rx.src.fid = kConfigResp
    /\ rx.src.payload # <<>>

\* C8: getConfig(id) fails with UnexpectedResponseId carrying the received
\* id, and returns no value, when the response's leading id byte differs from
\* id; when it equals id (an id of the config registry) the rest of the
\* payload is decoded with the registry's scalar type of that id:
\* UserCalNumPoints (12) as a big-endian uint32, Declination (1) as a
\* float32.
C8_ConfigIdEcho ==
    GotConfigResponse =>
        LET id == op.args[1]
            rid == rx.src.payload[1]
            rest == Tail(rx.src.payload)
        IN IF rid # id
           THEN res = [status |-> "UnexpectedResponseId", value |-> <<>>,
                       info |-> <<rid>>]
           ELSE id \in DOMAIN config =>
                   /\ res.status = "ok"
                   /\ res.value = <<StructUnpack(config[id].struct, rest).v>>
                   /\ (id = 12 /\ rest = <<0, 0, 1, 2>>) => res.value = <<258>>
                   /\ (id = 1 /\ rest = RawOne)
                         => res.value = <<[s |-> 0, e |-> 127, m |-> 0]>>

\* C8 witness: getConfig(1) met a response whose id byte is 2 and failed
\* with UnexpectedResponseId{2}.
C8_Witness ==
    /\ GotConfigResponse
    /\ op.args = <<1>>
    /\ rx.src.payload[1] = 2
    /\ res.status = "UnexpectedResponseId"
    /\ res.info = <<2>>

\* C9: save succeeds if and only if the 16-bit status code of the save-done
\* response is 0; for every other code c it fails with SaveFailed{c}.
C9_SaveStatus ==
    (/\ Returned("save")
     /\ MetWellFormed
     /\ rx.src.fid = kSaveDone
     /\ Len(rx.src.payload) = 2)
    => LET c == 256 * rx.src.payload[1] + rx.src.payload[2]
       IN /\ (res.status = "ok") <=> (c = 0)
          /\ c # 0 => res = [status |-> "SaveFailed", value |-> <<>>,
                             info |-> <<c>>]

\* C9 witness: status code 7 made save fail with SaveFailed{7}.
C9_Witness ==
    /\ Returned("save")
    /\ MetWellFormed
    /\ rx.src.payload = <<0, 7>>
    /\ res.status = "SaveFailed"
    /\ res.info = <<7>>

\* C10: setFilter(count) without coefficients sends param id 3, axis id 1,
\* count and then the default table of that count, each coefficient as a
\* big-endian float64; setFilter with a count outside {0, 4, 8, 16, 32}, or
\* with coefficients whose number is not count, fails with InvalidArgument.
C10_SetFilterArguments ==
    op.name = "setFilter" =>
        LET count == op.args[1]
            given == op.args[2]
            values == op.args[3]
            n == Len(lastWrite)
        IN IF count \notin {0, 4, 8, 16, 32}
              \/ (given /\ Len(values) # count)
           THEN res.status = "InvalidArgument" /\ res.value = <<>>
           ELSE /\ res.status # "InvalidArgument"
                /\ ~given =>
                      /\ nWrites = 1
                      /\ lastWrite[3] = kSetParam
                      /\ SubSeq(lastWrite, 4, n - 2) =
                            <<3, 1, count>> \o
                            PackDoubles(fir_defaults[count])
                      /\ count = 4 =>
                            SubSeq(lastWrite, 7, 14) =
                               <<63, 167, 234, 50, 122, 35, 178, 73>>

\* C10 witness: setFilter(32) sent the 32 default coefficients.
C10_Witness ==
    /\ op.name = "setFilter"
    /\ op.args = <<32, FALSE, <<>> >>
    /\ nWrites = 1
    /\ Len(lastWrite) = 264
    /\ lastWrite[6] = 32

\* getFilter has returned on a well-formed parameter response that holds
\* the three header bytes.
GotParamResponse ==
    /\ Returned("getFilter")
    /\ MetWellFormed
    /\ rx.src.fid = kParamResp
    /\ Len(rx.src.payload) >= 3

\* C11: getFilter fails with ProtocolMismatch and returns no coefficient
\* list when the param id of the response is not 3 or its axis id is not 1;
\* otherwise a response that holds count float64 coefficients, count being
\* the third header byte, makes it return exactly these count coefficients,
\* and it never returns a list of another length.
C11_FilterHeader ==
    GotParamResponse =>
        LET p == rx.src.payload
            count == p[3]
            body == SubSeq(p, 4, Len(p))
        IN IF p[1] # 3 \/ p[2] # 1
           THEN /\ res.status = "ProtocolMismatch"
                /\ res.value = <<>>
                /\ res.info = <<IF p[1] # 3 THEN p[1] ELSE p[2]>>
           ELSE /\ res.status \in {"ok", "StructError"}
                /\ res.status = "ok" => Len(res.value[1]) = count
                /\ Len(body) = 8 * count =>
                      /\ res.status = "ok"
                      /\ \A i \in 1..count :
                            Pack_d(res.value[1][i]) =
                               SubSeq(body, 8 * i - 7, 8 * i)

\* C11 witness: the response with param id 3 and axis id 2 made getFilter
\* fail with ProtocolMismatch.
C11_Witness ==
    /\ GotParamResponse
    /\ rx.src.payload = <<3, 2, 0>>
    /\ res.status = "ProtocolMismatch"
    /\ res.info = <<2>>
    /\ res.value = <<>>

\* C12: during calibration a well-formed frame whose id is none of 17
\* (sample count), 18 (score) and 5 (data response) ends the status step
\* with UnexpectedFrame carrying that id, and the step returns no Progress
\* and no Converged observation.
C12_CalibrationUnexpectedFrame ==
    (/\ op.name = "getCalibrationStatus"
     /\ nReads >= 1
     /\ MetWellFormed
     /\ rx.src.fid \notin {17, 18, 5})
    => /\ pc = "idle"
       /\ res = [status |-> "UnexpectedFrame", value |-> <<>>,
                 info |-> <<rx.src.fid>>]

\* C12 witness: a status step that had skipped nothing met the stray
\* acknowledgement 19 and failed with UnexpectedFrame{19}.
C12_Witness ==
    /\ op.name = "getCalibrationStatus"
    /\ pc = "idle"
    /\ nReads = 1
    /\ MetWellFormed
    /\ rx.src.fid = kSetConfigDone
    /\ res.status = "UnexpectedFrame"
    /\ res.info = <<19>>

\* The commands that await no response, and the frame id each sends.
FireAndForget ==
    [startCalibration |-> kStartCal, setDataComponents |-> kSetDataComponents,
     startStreaming |-> kStartIntervalMode]

\* A step of the driver (a call, or a step of the running call), as opposed
\* to a step of the device, which changes the channel's input only.
DriverStep ==
    ~UNCHANGED <<op, lastWrite, pc, res, nWrites, nReads, rx, obs, calRx,
                 afterStop>>

\* startCalibration, setDataComponents or startStreaming has been called.
FireAndForgetDone == op.name \in DOMAIN FireAndForget

\* C13: startCalibration, setDataComponents and startStreaming each write
\* exactly one frame (well-formed, of the command's id), call _recvMessage
\* not once and have returned with that; the step that runs one of them
\* leaves the channel's input as it was.
C13_FireAndForget ==
    /\ [](FireAndForgetDone =>
            /\ pc = "idle"
            /\ res = OkNone
            /\ nWrites = 1
            /\ nReads = 0
            /\ rx = NoRx
            /\ lastWrite =
                  EncodeFrame(FireAndForget[op.name],
                              SubSeq(lastWrite, 4, Len(lastWrite) - 2)))
    /\ [][(FireAndForgetDone' /\ DriverStep) =>
             /\ inbuf' = inbuf
             /\ wire' = wire
             /\ synced' = synced]_vars

\* C13 witness: startCalibration has returned after its one write while a
\* frame waits unread in the channel.
C13_Witness ==
    /\ op.name = "startCalibration"
    /\ pc = "idle"
    /\ nWrites = 1
    /\ nReads = 0
    /\ lastWrite = <<0, 9, 10, 0, 0, 0, 10>> \o
                   Pack_H(Crc(<<0, 9, 10, 0, 0, 0, 10>>))
    /\ inbuf # <<>>

\* C14: no command retries.  Every call writes at most one request; every
\* command of the request/response vocabulary calls _recvMessage at most
\* once and has returned or failed after that one call; a failure of
\* whatever kind leaves no call running.  (getCalibrationStatus writes
\* nothing; the data responses it skips are not retries.)
C14_NoRetry ==
    /\ nWrites <= 1
    /\ op.name = "getCalibrationStatus" => nWrites = 0
    /\ op.name # "getCalibrationStatus" =>
          /\ nReads <= 1
          /\ nReads = 1 => pc = "idle" /\ res.status # "running"
    /\ res.status \notin {"running", "ok"} => pc = "idle"
    /\ pc # "idle" => res.status = "running"

\* C14 witness: save has failed with ChecksumMismatch after one write and
\* one read.
C14_Witness ==
    /\ Returned("save")
    /\ res.status = "ChecksumMismatch"
    /\ nWrites = 1
    /\ nReads = 1
    /\ lastWrite = SaveBytes

\* C15: Converged is terminal.  In a calibration session no status step
\* returns an observation after the one that returned Converged, and none
\* consumes a frame after the score frame.
C15_ConvergedTerminal ==
    /\ \A i \in 1..Len(obs) : obs[i][1] => i = Len(obs)
    /\ \A i \in 1..Len(calRx) :
          calRx[i].fid = kUserCalScore => i = Len(calRx)

\* The frame stopStreaming writes: id 22, no payload.
StopFrame == <<0, 5, 22>> \o Pack_H(Crc(<<0, 5, 22>>))

\* C16: stopStreaming first writes the stop-interval-mode frame, leaving the
\* buffered input alone, and only then discards the buffered input; it
\* calls _recvMessage not once; the step that discards leaves no byte of
\* the input that was buffered, and the call returns with it.
C16_StopStreamingOrder ==
    /\ [](op.name = "stopStreaming" =>
            /\ pc \in {"flush", "idle"}
            /\ nWrites = 1
            /\ lastWrite = StopFrame
            /\ nReads = 0
            /\ rx = NoRx
            /\ res = IF pc = "flush" THEN Running ELSE OkNone)
    /\ [][(op'.name = "stopStreaming" /\ DriverStep) =>
             IF pc = "idle"
             THEN /\ pc' = "flush"
                  /\ inbuf' = inbuf
                  /\ wire' = wire
             ELSE /\ pc = "flush"
                  /\ pc' = "idle"
                  /\ lastWrite' = lastWrite
                  /\ inbuf' = <<>>
                  /\ wire' = <<>>]_vars

\* C16 witness: stopStreaming has written its frame and not yet discarded
\* the input, in which a streamed frame waits.
C16_Witness ==
    /\ op.name = "stopStreaming"
    /\ pc = "flush"
    /\ lastWrite = StopFrame
    /\ nWrites = 1
    /\ wire # <<>>
    /\ inbuf = wire[1].bytes

\* C17: the first request/response command called after stopStreaming has
\* returned never receives a streamed data response: the frame its one
\* _recvMessage meets is not a data response the device sent unasked.
C17_NoStaleFrame ==
    (/\ afterStop
     /\ op.name \in DOMAIN AwaitedId
     /\ pc = "idle"
     /\ nReads = 1)
    => ~(/\ rx.aligned
         /\ rx.src.fid = kDataResp
         /\ ~rx.src.asked)

\* The frames (as the device sent them) the running or latest status step
\* has consumed, when it has not failed.
StepFrames == SubSeq(calRx, Len(calRx) - nReads + 1, Len(calRx))

\* The channel holds, whole and next to be read, a frame that is not a
\* data response, and the session is within the bound on its frames.
NonDataDelivered ==
    /\ op.name = "getCalibrationStatus"
    /\ pc = "cal"
    /\ Len(calRx) < MaxCalFrames
    /\ synced
    /\ wire # <<>>
    /\ wire[1].fid # kDataResp
    /\ Len(inbuf) >= Len(wire[1].bytes)

\* The safety half of C18: a call of getCalibrationStatus consumes data
\* responses only as long as it runs, and has returned or failed exactly
\* when the frame it consumed last is not a data response; returned, it
\* consumes nothing more.
C18_StepSafety ==
    /\ [](op.name = "getCalibrationStatus" =>
            /\ pc \in {"cal", "idle"}
            /\ (pc = "cal" /\ nReads >= 1) =>
                  rx.status = "ok" /\ rx.fid = kDataResp
            /\ pc = "idle" =>
                  /\ nReads >= 1
                  /\ ~(rx.status = "ok" /\ rx.fid = kDataResp)
            /\ res.status \in {"running", "ok"} =>
                  /\ Len(calRx) >= nReads
                  /\ \A i \in 1..(nReads - 1) :
                        StepFrames[i].fid = kDataResp
                  /\ pc = "idle" => StepFrames[nReads].fid # kDataResp)
    /\ [][(op.name = "getCalibrationStatus" /\ pc = "idle"
            /\ op' = op /\ pc' = "idle") =>
             /\ nReads' = nReads
             /\ rx' = rx
             /\ SubSeq(inbuf', 1, Len(inbuf)) = inbuf]_vars

\* C18: one call of getCalibrationStatus consumes frames up to and including
\* the first that is not a data response and then returns or fails, and it
\* consumes no frame after that one; once the channel delivers such a frame
\* the call terminates.
C18_StatusStepTermination ==
    /\ C18_StepSafety
    /\ NonDataDelivered ~> (op.name = "getCalibrationStatus" /\ pc = "idle")

\* C18 witness: a status step has returned Progress(2) on its third frame,
\* after two data responses it skipped.
C18_Witness ==
    /\ op.name = "getCalibrationStatus"
    /\ pc = "idle"
    /\ nReads = 3
    /\ res.status = "ok"
    /\ res.value = << <<FALSE, 2>> >>
    /\ StepFrames[1].fid = kDataResp
    /\ StepFrames[2].fid = kDataResp
    /\ StepFrames[3].fid = kUserCalSampCount

\* C19: with a device that does not stream and answers each request of a
\* request/response command with exactly one well-formed frame of the
\* awaited id, and sends nothing for the other commands, each command
\* consumes exactly the bytes of its own response: the input is empty
\* whenever no command runs, the channel never holds more than the one
\* response of the one running command, and the frame a command has
\* received is whole, its own, and the awaited one.
C19_RequestResponseSync ==
    /\ pc = "idle" => inbuf = <<>> /\ wire = <<>>
    /\ synced
    /\ Len(wire) <= 1
    /\ wire # <<>> =>
          /\ pc = "recv"
          /\ nReads = 0
          /\ wire[1].asked
          /\ wire[1].fid = ExpectedId(op.name)
          /\ inbuf = wire[1].bytes
    /\ nReads <= 1
    /\ nReads = 1 =>
          /\ pc = "idle"
          /\ rx.aligned
          /\ rx.src.asked
          /\ rx.status = "ok"
          /\ rx.used = Len(rx.src.bytes)
          /\ rx.fid = ExpectedId(op.name)
          /\ rx.payload = rx.src.payload

\* C19 witness: getData, called next after stopStreaming, has consumed its
\* response of two components whole and left the input empty.
C19_Witness ==
    /\ Returned("getData")
    /\ afterStop
    /\ rx.src.asked
    /\ Len(rx.src.comps) = 2
    /\ rx.used = Len(rx.src.bytes)
    /\ res.status = "ok"
    /\ inbuf = <<>>

\* The latest call is setFilter with a count outside {0, 4, 8, 16, 32} or
\* with coefficients whose number is not count, or setConfig with an id
\* that is not in the configuration registry.
ArgumentFailure ==
    \/ /\ op.name = "setFilter"
       /\ \/ op.args[1] \notin {0, 4, 8, 16, 32}
          \/ op.args[2] /\ Len(op.args[3]) # op.args[1]
    \/ /\ op.name = "setConfig"
       /\ op.args[1] \notin DOMAIN config

\* C20: setFilter with a bad count or a coefficient list of another length,
\* and setConfig with an id absent from the configuration registry, fail
\* without a write and without a read: the call has failed with no write
\* and no _recvMessage call, and its step leaves the bytes last written and
\* the channel's unread input as they were.
C20_ArgumentFailureNoIO ==
    /\ [](ArgumentFailure =>
            /\ pc = "idle"
            /\ res.status \in {"InvalidArgument", "UnknownIdentifier"}
            /\ res.value = <<>>
            /\ nWrites = 0
            /\ nReads = 0
            /\ rx = NoRx)
    /\ [][(ArgumentFailure' /\ DriverStep) =>
             /\ lastWrite' = lastWrite
             /\ inbuf' = inbuf
             /\ wire' = wire
             /\ synced' = synced]_vars

\* C20 witness: setConfig(3, ..), 3 being in no registry, has failed with
\* nothing written while a frame waits unread in the channel and the bytes
\* last written are those of an earlier command.
C20_Witness ==
    /\ op.name = "setConfig"
    /\ op.args = <<3>>
    /\ res.status = "UnknownIdentifier"
    /\ nWrites = 0
    /\ nReads = 0
    /\ lastWrite = GetModelInfoBytes
    /\ inbuf # <<>>

====
